---- MODULE Spec2Model ----
(***************************************************************************)
(* Model of the JSON category store of little-big-data                     *)
(* (src/little_big_data/storage/json_storage.py) together with the record  *)
(* classes it serializes (core/base.py DataPoint, models/strava.py         *)
(* StravaActivity).                                                        *)
(*                                                                         *)
(* Names are sequences of tokens, so that "{source}_{data_type}" and       *)
(* stem.split("_", 1) are computed as the code computes them.  A datetime  *)
(* object is <<"datetime", t>>, the text json.dump(default=str) writes for *)
(* it is <<"str", t>>, and its isoformat() is <<"iso", t>>.  All           *)
(* timestamps carry the same zone, so t orders them and comparing two of   *)
(* them never raises.  Sources and data types are non-empty, so the        *)
(* truth tests "if source and data_type" are tests against None.           *)
(*                                                                         *)
(* Spec is the store used by one caller, one call at a time.  SpecSaves is *)
(* the directory shared by callers whose save calls overlap.  save has no  *)
(* await in its body, so two calls on one event loop never overlap; calls  *)
(* of separate processes on the same directory (the command line tool next *)
(* to the API server) do, and they interleave at the file operations.      *)
(* SpecSteps runs save and delete of such processes step by step, with     *)
(* write failures and interruptions.  SpecStrava is the Strava source and  *)
(* the endpoint POST /data/strava/fetch.                                   *)
(***************************************************************************)
EXTENDS Integers, Sequences, FiniteSets, TLC

VARIABLES files, ret, before, tasks, last_write, strava

vars == <<files, ret, before, tasks, last_write, strava>>

----------------------------------------------------------------------------
(* Bounds of the model *)

MaxTime == 2
MaxBatch == 2
MaxTotal == 2
NumCallers == 2

----------------------------------------------------------------------------
(* Values *)

None == <<>>

datetime(t) == <<"datetime", t>>

Timestamps == {datetime(t) : t \in 1..MaxTime}

\* (source, data_type) pairs used as inputs.  The second and the third pair
\* contain the "_" token inside the source resp. the data_type.
PairST == <<(<<"s">>), (<<"t">>)>>
PairABT == <<(<<"a", "_", "b">>), (<<"t">>)>>
PairAB_T == <<(<<"a">>), (<<"b", "_", "t">>)>>
PairStrava == <<(<<"strava">>), (<<"activity">>)>>

Pairs == {PairST, PairABT, PairAB_T, PairStrava}

Sources == {p[1] : p \in Pairs}

DataTypes == {p[2] : p \in Pairs}

\* metadata: a mapping with the optional keys 'id' and 'raw_data'; an absent
\* key is None.  raw_data is either a string or, as the zit source builds it
\* from project.dict(), a value holding a datetime object.
MetaId == [id |-> <<1>>, raw_data |-> None]
MetaIdStr == [id |-> <<1>>, raw_data |-> <<"str", 1>>]
MetaRawObj == [id |-> None, raw_data |-> datetime(1)]

\* The records callers hand to save.  cls is the Python class of the object.
Point(ts, pair, metadata, cls) ==
  [timestamp |-> ts, source |-> pair[1], data_type |-> pair[2],
   metadata |-> metadata, cls |-> cls]

Points ==
  {Point(ts, PairST, MetaId, "DataPoint") : ts \in Timestamps}
  \cup {Point(datetime(1), PairST, MetaIdStr, "DataPoint"),
        Point(datetime(1), PairST, MetaRawObj, "DataPoint"),
        Point(datetime(1), PairST, MetaId, "StravaActivity"),
        Point(datetime(1), PairABT, MetaId, "DataPoint"),
        Point(datetime(1), PairAB_T, MetaId, "DataPoint"),
        Point(datetime(1), PairStrava, MetaId, "DataPoint"),
        Point(datetime(1), PairStrava, MetaId, "StravaActivity")}

RECURSIVE SeqsUpTo(_, _)
SeqsUpTo(S, n) ==
  IF n = 0 THEN {<<>>}
  ELSE LET shorter == SeqsUpTo(S, n - 1)
       IN shorter \cup {Append(s, x) : s \in {q \in shorter : Len(q) = n - 1}, x \in S}

Batches == SeqsUpTo(Points, MaxBatch)

Range(s) == {s[i] : i \in 1..Len(s)}

----------------------------------------------------------------------------
(* Serialization *)

\* json.dump(..., default=str): a datetime object is written as its str()
json_default(v) == IF v # None /\ v[1] = "datetime" THEN <<"str", v[2]>> ELSE v

\* point.model_dump() followed by json.dump: the flat object of the file.
\* fields tells whether the named fields of StravaActivity are in the object.
model_dump(point) ==
  [timestamp |-> json_default(point.timestamp),
   source |-> point.source,
   data_type |-> point.data_type,
   metadata |-> [id |-> point.metadata.id,
                 raw_data |-> json_default(point.metadata.raw_data)],
   fields |-> (point.cls = "StravaActivity")]

\* pydantic's parse of the timestamp text
parse_datetime(v) == datetime(v[2])

\* item.get('source') == 'strava' and item.get('data_type') == 'activity'
IsStravaItem(item) == item.source = <<"strava">> /\ item.data_type = <<"activity">>

\* StravaActivity.model_validate fails when the required fields are missing
Validates(item) == IsStravaItem(item) => item.fields

deserialize_point(item) ==
  [timestamp |-> parse_datetime(item.timestamp),
   source |-> item.source,
   data_type |-> item.data_type,
   metadata |-> item.metadata,
   cls |-> IF IsStravaItem(item) THEN "StravaActivity" ELSE "DataPoint"]

isoformat(ts) == <<"iso", ts[2]>>

\* (timestamp.isoformat(), metadata.get('id', str(hash(str(metadata)))))
point_id(point) ==
  <<isoformat(point.timestamp),
    IF point.metadata.id # None THEN <<"id", point.metadata.id>>
    ELSE <<"hash", point.metadata>>>>

\* [self._deserialize_point(item) for item in existing_data]
deserialize_all(items) == [i \in 1..Len(items) |-> deserialize_point(items[i])]

\* [point.model_dump() for point in all_points], as json.dump writes it
dump_all(points) == [i \in 1..Len(points) |-> model_dump(points[i])]

----------------------------------------------------------------------------
(* The base directory *)

\* self.base_path / f"{source}_{data_type}.json"  (the stem of the name)
get_file_path(source, data_type) == source \o <<"_">> \o data_type

\* a *.json file of the directory whose stem has no "_"
NotesFile == <<"notes">>

FileNames == {get_file_path(p[1], p[2]) : p \in Pairs} \cup {NotesFile}

\* content of a file: missing, text that is not valid JSON, or a JSON array
Missing == [kind |-> "missing", data |-> <<>>]
Corrupt == [kind |-> "corrupt", data |-> <<>>]
JsonArray(items) == [kind |-> "json", data |-> items]

exists(dir, name) == name \in DOMAIN dir /\ dir[name].kind # "missing"

\* self.base_path.glob("*.json"), as a set
glob(dir) == {n \in DOMAIN dir : exists(dir, n)}

\* the names of the directory in one fixed order
NameOrder ==
  <<get_file_path(PairST[1], PairST[2]), get_file_path(PairABT[1], PairABT[2]),
    get_file_path(PairStrava[1], PairStrava[2]), NotesFile>>

Reverse(s) == [i \in 1..Len(s) |-> s[Len(s) + 1 - i]]

\* glob yields the names in an order the file system chooses: the model lets
\* it be the fixed order or its reverse, so that either of two files can be
\* the first
GlobOrders(dir) ==
  LET found == SelectSeq(NameOrder, LAMBDA n : exists(dir, n))
  IN {found, Reverse(found)}

\* position of the first "_" of a stem, 0 when it has none
RECURSIVE find_underscore(_, _)
find_underscore(stem, i) ==
  IF i > Len(stem) THEN 0
  ELSE IF stem[i] = "_" THEN i
  ELSE find_underscore(stem, i + 1)

\* file_path.stem.split("_", 1)
split(stem) ==
  LET i == find_underscore(stem, 1)
  IN <<SubSeq(stem, 1, i - 1), SubSeq(stem, i + 1, Len(stem))>>

\* list.sort(key=lambda x: x.timestamp): stable, ascending
RECURSIVE insert_sorted(_, _)
insert_sorted(sorted, p) ==
  IF sorted = <<>> THEN <<p>>
  ELSE IF sorted[Len(sorted)].timestamp[2] <= p.timestamp[2] THEN Append(sorted, p)
  ELSE Append(insert_sorted(SubSeq(sorted, 1, Len(sorted) - 1), p), sorted[Len(sorted)])

RECURSIVE sort_by_timestamp_from(_, _, _)
sort_by_timestamp_from(points, i, acc) ==
  IF i > Len(points) THEN acc
  ELSE sort_by_timestamp_from(points, i + 1, insert_sorted(acc, points[i]))

sort_by_timestamp(points) == sort_by_timestamp_from(points, 1, <<>>)

----------------------------------------------------------------------------
(* load *)

\* the filter arguments of load and delete; None is Python's None
Filters ==
  [source : Sources \cup {None}, data_type : DataTypes \cup {None},
   start_date : Timestamps \cup {None}, end_date : Timestamps \cup {None}]

NoFilter == [source |-> None, data_type |-> None, start_date |-> None, end_date |-> None]

\* lines 96-112: the files load reads, in the order it reads them
files_to_load(dir, f, order) ==
  IF f.source # None /\ f.data_type # None
  THEN <<get_file_path(f.source, f.data_type)>>
  ELSE SelectSeq(order,
         LAMBDA name :
           /\ find_underscore(name, 1) # 0
           /\ f.source = None \/ split(name)[1] = f.source
           /\ f.data_type = None \/ split(name)[2] = f.data_type)

\* the date filters with exclusive bounds
in_range_exclusive(point, f) ==
  /\ f.start_date = None \/ point.timestamp[2] > f.start_date[2]
  /\ f.end_date = None \/ point.timestamp[2] < f.end_date[2]

\* lines 122-126: the date filters
in_range(point, f) ==
  /\ f.start_date = None \/ ~(point.timestamp[2] < f.start_date[2])
  /\ f.end_date = None \/ ~(point.timestamp[2] > f.end_date[2])

\* lines 115-130 for one file: the points it contributes; a file that does
\* not exist or is not valid JSON contributes none
load_file(dir, name, f) ==
  IF exists(dir, name) /\ dir[name].kind = "json"
  THEN SelectSeq(deserialize_all(dir[name].data), LAMBDA p : in_range(p, f))
  ELSE <<>>

\* load without the except clause of lines 128-130: invalid JSON raises too
file_raises_uncaught(dir, name) ==
  /\ exists(dir, name)
  /\ \/ dir[name].kind = "corrupt"
     \/ \E i \in 1..Len(dir[name].data) : ~Validates(dir[name].data[i])

\* a file whose entry fails model_validate makes the call raise; the
\* JSONDecodeError of a file that is not valid JSON is caught (lines 128-130)
file_raises(dir, name) ==
  /\ exists(dir, name)
  /\ dir[name].kind = "json"
  /\ \E i \in 1..Len(dir[name].data) : ~Validates(dir[name].data[i])

RECURSIVE concat_files(_, _, _, _)
concat_files(dir, names, f, i) ==
  IF i > Len(names) THEN <<>>
  ELSE load_file(dir, names[i], f) \o concat_files(dir, names, f, i + 1)

\* load without the sort of line 133
load_unsorted(dir, f, order) ==
  LET names == files_to_load(dir, f, order)
  IN IF \E i \in 1..Len(names) : file_raises(dir, names[i])
     THEN [exc |-> "ValidationError", value |-> <<>>]
     ELSE [exc |-> "none", value |-> concat_files(dir, names, f, 1)]

\* JsonStorage.load: exc names the exception that leaves the call, value is
\* the returned list
load(dir, f, order) ==
  LET names == files_to_load(dir, f, order)
  IN IF \E i \in 1..Len(names) : file_raises(dir, names[i])
     THEN [exc |-> "ValidationError", value |-> <<>>]
     ELSE [exc |-> "none", value |-> sort_by_timestamp(concat_files(dir, names, f, 1))]

----------------------------------------------------------------------------
(* save *)

\* lines 38-44: the keys of groups, in the order of their first record
RECURSIVE group_keys(_, _, _)
group_keys(data_points, i, acc) ==
  IF i > Len(data_points) THEN acc
  ELSE LET key == <<data_points[i].source, data_points[i].data_type>>
       IN group_keys(data_points, i + 1,
                     IF key \in Range(acc) THEN acc ELSE Append(acc, key))

\* groups[key]
group_points(data_points, key) ==
  SelectSeq(data_points, LAMBDA p : <<p.source, p.data_type>> = key)

\* lines 50-58: an absent file and a file that is not valid JSON read as []
existing_data(dir, file_path) ==
  IF exists(dir, file_path) /\ dir[file_path].kind = "json"
  THEN dir[file_path].data
  ELSE <<>>

\* lines 71-77: the points of the group whose id is not in the file
new_points(existing_points, points) ==
  LET existing_ids == {point_id(x) : x \in Range(existing_points)}
  IN SelectSeq(points, LAMBDA p : point_id(p) \notin existing_ids)

\* the merge without the sort of line 81
all_points_unsorted(existing_points, points) ==
  existing_points \o new_points(existing_points, points)

\* lines 79-81
all_points(existing_points, points) ==
  sort_by_timestamp(existing_points \o new_points(existing_points, points))

\* save of one group without the except clause of lines 56-58
save_group_uncaught(dir, key, points) ==
  LET file_path == get_file_path(key[1], key[2])
      existing == existing_data(dir, file_path)
  IN IF exists(dir, file_path) /\ dir[file_path].kind = "corrupt"
     THEN [exc |-> "JSONDecodeError", files |-> dir]
     ELSE IF \E i \in 1..Len(existing) : ~Validates(existing[i])
     THEN [exc |-> "ValidationError", files |-> dir]
     ELSE [exc |-> "none",
           files |-> [dir EXCEPT ![file_path] =
                        JsonArray(dump_all(all_points(deserialize_all(existing), points)))]]

\* lines 47-86 for one group: read, merge, rewrite the file.  When an
\* existing entry fails to deserialize (line 61) nothing is written.
save_group(dir, key, points) ==
  LET file_path == get_file_path(key[1], key[2])
      existing == existing_data(dir, file_path)
  IN IF \E i \in 1..Len(existing) : ~Validates(existing[i])
     THEN [exc |-> "ValidationError", files |-> dir]
     ELSE [exc |-> "none",
           files |-> [dir EXCEPT ![file_path] =
                        JsonArray(dump_all(all_points(deserialize_all(existing), points)))]]

RECURSIVE save_groups(_, _, _, _)
save_groups(dir, data_points, keys, i) ==
  IF i > Len(keys) THEN [exc |-> "none", files |-> dir]
  ELSE LET r == save_group(dir, keys[i], group_points(data_points, keys[i]))
       IN IF r.exc # "none" THEN r
          ELSE save_groups(r.files, data_points, keys, i + 1)

\* JsonStorage.save: the directory it leaves and the exception, if any
save(dir, data_points) ==
  save_groups(dir, data_points, group_keys(data_points, 1, <<>>), 1)

----------------------------------------------------------------------------
(* delete *)

\* lines 161-171: the record matches the deletion criteria
should_delete(point, f) ==
  /\ ~(f.source # None /\ point.source # f.source)
  /\ ~(f.data_type # None /\ point.data_type # f.data_type)
  /\ ~(f.start_date # None /\ point.timestamp[2] < f.start_date[2])
  /\ ~(f.end_date # None /\ point.timestamp[2] > f.end_date[2])

\* delete without the unlink of lines 179-180
unlink_none(dir) == dir

\* lines 179-180: every *.json file of the directory is removed
unlink_all(dir) == [n \in DOMAIN dir |-> Missing]

\* lines 156-183 on their own: the record-by-record path of delete (load
\* everything, partition, unlink every *.json file, save the kept records)
delete_general(dir, f, order) ==
  LET all_data == load(dir, NoFilter, order)
  IN IF all_data.exc # "none"
     THEN [exc |-> all_data.exc, count |-> 0, files |-> dir]
     ELSE LET remaining_data ==
                SelectSeq(all_data.value, LAMBDA p : ~should_delete(p, f))
              deleted_count ==
                Len(SelectSeq(all_data.value, LAMBDA p : should_delete(p, f)))
              saved == IF remaining_data # <<>>
                       THEN save(unlink_all(dir), remaining_data)
                       ELSE [exc |-> "none", files |-> unlink_all(dir)]
          IN [exc |-> saved.exc, count |-> deleted_count, files |-> saved.files]

\* JsonStorage.delete: the directory it leaves, the returned count and the
\* exception, if any
delete(dir, f, order) ==
  LET data_points == load(dir, f, order)
  IN IF data_points.exc # "none"
     THEN [exc |-> data_points.exc, count |-> 0, files |-> dir]
     ELSE IF data_points.value = <<>>
     THEN [exc |-> "none", count |-> 0, files |-> dir]
     ELSE IF f.source # None /\ f.data_type # None
             /\ f.start_date = None /\ f.end_date = None
     THEN LET file_path == get_file_path(f.source, f.data_type)
          IN IF exists(dir, file_path)
             THEN [exc |-> "none", count |-> Len(data_points.value),
                   files |-> [dir EXCEPT ![file_path] = Missing]]
             ELSE [exc |-> "none", count |-> 0, files |-> dir]
     ELSE LET all_data == load(dir, NoFilter, order)
          IN IF all_data.exc # "none"
             THEN [exc |-> all_data.exc, count |-> 0, files |-> dir]
             ELSE LET remaining_data ==
                        SelectSeq(all_data.value, LAMBDA p : ~should_delete(p, f))
                      deleted_count ==
                        Len(SelectSeq(all_data.value, LAMBDA p : should_delete(p, f)))
                      saved == IF remaining_data # <<>>
                               THEN save(unlink_all(dir), remaining_data)
                               ELSE [exc |-> "none", files |-> unlink_all(dir)]
                  IN [exc |-> saved.exc, count |-> deleted_count, files |-> saved.files]

----------------------------------------------------------------------------
(* The Strava source *)

\* per_page = 200: the page size fetch_data asks for
per_page == 200

\* the pages of the Strava server that can be full
MaxPages == 2

\* the status codes the Strava endpoints answer with
Statuses == {200, 401, 500}

\* the config dictionaries; an absent key is None, as config.get returns it
Configs ==
  [client_id : {None, <<"client_id">>},
   client_secret : {None, <<"client_secret">>},
   access_token : {None, <<"access_token">>},
   refresh_token : {None, <<"refresh_token">>}]

\* StravaSource.__init__
StravaSource(config) ==
  [client_id |-> config.client_id,
   client_secret |-> config.client_secret,
   access_token |-> config.access_token,
   refresh_token |-> config.refresh_token,
   _authenticated |-> FALSE]

\* StravaSource._refresh_access_token; status_code is the answer of the
\* token endpoint
refresh_access_token(self, status_code) ==
  IF self.refresh_token = None \/ self.client_id = None \/ self.client_secret = None
  THEN [self |-> self, result |-> "False"]
  ELSE IF status_code = 200
  THEN [self |-> [self EXCEPT !.access_token = <<"new_access_token">>,
                              !.refresh_token = <<"new_refresh_token">>,
                              !._authenticated = TRUE],
        result |-> "True"]
  ELSE [self |-> [self EXCEPT !._authenticated = FALSE], result |-> "False"]

\* StravaSource.authenticate; status_code is the answer of GET /athlete,
\* refresh_status the answer of the token endpoint if it is asked
authenticate(self, status_code, refresh_status) ==
  IF self.access_token = None
  THEN [self |-> self, result |-> "ValueError"]
  ELSE IF status_code = 200
  THEN [self |-> [self EXCEPT !._authenticated = TRUE], result |-> "True"]
  ELSE IF status_code = 401
  THEN IF self.refresh_token # None
       THEN refresh_access_token(self, refresh_status)
       ELSE [self |-> [self EXCEPT !._authenticated = FALSE], result |-> "False"]
  ELSE [self |-> [self EXCEPT !._authenticated = FALSE], result |-> "False"]

\* the JSON object of the k-th activity of a page
activity_data(page, k) ==
  [id |-> <<page, k>>, start_date_local |-> <<"str", 1>>]

\* response.json() of a page of n activities
page_activities(page, n) == [k \in 1..n |-> activity_data(page, k)]

\* StravaSource._convert_to_activity: the start date is parsed, the id and
\* the object itself go into the metadata
convert_to_activity(data) ==
  Point(parse_datetime(data.start_date_local), PairStrava,
        [id |-> data.id, raw_data |-> <<"dict", data.id>>], "StravaActivity")

\* the lengths the server can give the page: beyond MaxPages it has nothing,
\* and the athlete the endpoint fetches has at most one activity
PageLengths(page, by) ==
  IF page > MaxPages THEN {0}
  ELSE IF by = "endpoint" THEN {0, 1}
  ELSE {0, 1, per_page}

\* str(HTTPException(status_code, detail))
str_http_exception(status_code, detail) == <<ToString(status_code), ": ">> \o detail

\* the fetch loop and the endpoint at rest
AtRest ==
  [pc |-> "idle", by |-> "none", page |-> 0, activities |-> <<>>,
   requests |-> <<>>, received |-> <<>>, statuses |-> <<>>,
   op |-> "none", result |-> "none", was_authenticated |-> FALSE,
   auth |-> "none", status_code |-> 0, detail |-> <<>>, save_called |-> FALSE]

\* no StravaSource has been constructed
NoSource == [self |-> StravaSource([client_id |-> None, client_secret |-> None,
                                    access_token |-> None, refresh_token |-> None]),
             run |-> AtRest]

----------------------------------------------------------------------------
(* The store as a state machine *)

\* number of records in the files of the directory
RECURSIVE total_records(_, _)
total_records(dir, names) ==
  IF names = {} THEN 0
  ELSE LET n == CHOOSE x \in names : TRUE
       IN Len(dir[n].data) + total_records(dir, names \ {n})

\* no call is under way: the caller has taken the result of its last call.
\* While a call's result is in ret, before is the directory the call found;
\* otherwise before is the directory itself.
Idle == [op |-> "idle", exc |-> "none", value |-> <<>>, count |-> 0]

\* the callers of SpecSaves; under Spec none of them ever calls
Callers == 1..NumCallers

\* a caller that has not called save yet
NotCalled ==
  [pc |-> "start", data_points |-> <<>>, keys |-> <<>>, i |-> 0,
   existing |-> <<>>, exc |-> "none"]

\* no save has written the file yet
NoWrite == [by |-> 0, data |-> <<>>]

\* JsonStorage.__init__ on a new directory: mkdir, no file
Init ==
  /\ files = [n \in FileNames |-> Missing]
  /\ ret = Idle
  /\ before = files
  /\ tasks = [c \in Callers |-> NotCalled]
  /\ last_write = [n \in FileNames |-> NoWrite]
  /\ strava = NoSource

\* await storage.save(data_points): returns None or raises
Save ==
  /\ ret = Idle
  /\ \E data_points \in Batches :
       LET r == save(files, data_points)
       IN /\ total_records(r.files, FileNames) <= MaxTotal
          /\ files' = r.files
          /\ ret' = [op |-> "save", exc |-> r.exc, value |-> <<>>, count |-> 0]
          /\ before' = files
          /\ UNCHANGED <<tasks, last_write, strava>>

\* await storage.load(source, data_type, start_date, end_date): returns the list
Load ==
  /\ ret = Idle
  /\ \E f \in Filters, order \in GlobOrders(files) :
       LET r == load(files, f, order)
       IN /\ ret' = [op |-> "load", exc |-> r.exc, value |-> r.value, count |-> 0]
          /\ UNCHANGED <<files, before, tasks, last_write, strava>>

\* await storage.delete(source, data_type, start_date, end_date): returns the count
Delete ==
  /\ ret = Idle
  /\ \E f \in Filters, order \in GlobOrders(files) :
       LET r == delete(files, f, order)
       IN /\ files' = r.files
          /\ ret' = [op |-> "delete", exc |-> r.exc, value |-> <<>>, count |-> r.count]
          /\ before' = files
          /\ UNCHANGED <<tasks, last_write, strava>>

\* the files something other than the store writes: a backing file and a
\* file whose stem has no "_"
ForeignNames == {get_file_path(PairST[1], PairST[2]), NotesFile}

\* a file of the directory is written with text that is not valid JSON
\* (corrupt_file.write_text("invalid json {"))
WriteCorrupt ==
  /\ ret = Idle
  /\ \E name \in ForeignNames :
       /\ files' = [files EXCEPT ![name] = Corrupt]
       /\ ret' = [op |-> "write_text", exc |-> "none", value |-> <<>>, count |-> 0]
       /\ before' = files
       /\ UNCHANGED <<tasks, last_write, strava>>

\* a constructor that starts from an empty directory
mkdir_fresh(dir) == [n \in DOMAIN dir |-> Missing]

\* self.base_path.mkdir(exist_ok=True): an existing directory keeps its files
mkdir(dir) == dir

\* JsonStorage(base_path) constructed on the directory while it holds files:
\* the new instance has base_path and nothing else
Construct ==
  /\ ret = Idle
  /\ files' = mkdir(files)
  /\ ret' = [op |-> "init", exc |-> "none", value |-> <<>>, count |-> 0]
  /\ before' = files
  /\ UNCHANGED <<tasks, last_write, strava>>

\* the caller takes the result (or the exception) of the call and goes on
Return ==
  /\ ret # Idle
  /\ ret' = Idle
  /\ before' = files
  /\ UNCHANGED <<files, tasks, last_write, strava>>

Next == Save \/ Load \/ Delete \/ WriteCorrupt \/ Construct \/ Return

Spec == Init /\ [][Next]_vars

----------------------------------------------------------------------------
(* Overlapping save calls on one directory *)

\* the records the overlapping calls save: two of one pair with different
\* keys, one of each of the two pairs whose file names coincide, and one
\* StravaActivity
ConcurrentPoints ==
  {Point(ts, PairST, MetaId, "DataPoint") : ts \in Timestamps}
  \cup {Point(datetime(1), PairABT, MetaId, "DataPoint"),
        Point(datetime(MaxTime), PairAB_T, MetaId, "DataPoint"),
        Point(datetime(1), PairStrava, MetaId, "StravaActivity")}

SaveBatches == SeqsUpTo(ConcurrentPoints, MaxBatch)

EmptyDir == [n \in FileNames |-> Missing]

\* the directory when the calls begin: new, or left by an earlier save
InitialDirs ==
  {EmptyDir, save(EmptyDir, <<Point(datetime(1), PairST, MetaId, "DataPoint")>>).files}

InitSaves ==
  /\ files \in InitialDirs
  /\ before = files
  /\ ret = Idle
  /\ tasks = [c \in Callers |-> NotCalled]
  /\ last_write = [n \in FileNames |-> NoWrite]
  /\ strava = NoSource

\* the file of the group the caller is working on
task_file(t) == get_file_path(t.keys[t.i][1], t.keys[t.i][2])

\* lines 79-85 for the caller's group: the array it writes
task_dump(t) ==
  dump_all(all_points(deserialize_all(t.existing), group_points(t.data_points, t.keys[t.i])))

\* lines 38-44: a caller calls save(data_points) and groups the points
CallSave ==
  \E c \in Callers : \E data_points \in SaveBatches :
    LET keys == group_keys(data_points, 1, <<>>)
    IN /\ tasks[c].pc = "start"
       /\ tasks' = [tasks EXCEPT ![c] =
                      [pc |-> IF keys = <<>> THEN "done" ELSE "read",
                       data_points |-> data_points, keys |-> keys, i |-> 1,
                       existing |-> <<>>, exc |-> "none"]]
       /\ UNCHANGED <<files, ret, before, last_write, strava>>

\* lines 48-61: the caller reads the file of its group; a file that does not
\* exist or is not valid JSON reads as [], an entry that fails model_validate
\* ends the call with the exception
ReadExisting ==
  \E c \in Callers :
    LET t == tasks[c]
        existing == existing_data(files, task_file(t))
    IN /\ t.pc = "read"
       /\ tasks' = [tasks EXCEPT ![c] =
                      IF \E i \in 1..Len(existing) : ~Validates(existing[i])
                      THEN [t EXCEPT !.pc = "done", !.exc = "ValidationError"]
                      ELSE [t EXCEPT !.pc = "open", !.existing = existing]]
       /\ UNCHANGED <<files, ret, before, last_write, strava>>

\* line 84: open(file_path, 'w') creates the file or truncates it; an empty
\* file is not valid JSON
OpenForWrite ==
  \E c \in Callers :
    LET t == tasks[c]
    IN /\ t.pc = "open"
       /\ files' = [files EXCEPT ![task_file(t)] = Corrupt]
       /\ tasks' = [tasks EXCEPT ![c] = [t EXCEPT !.pc = "dump"]]
       /\ UNCHANGED <<ret, before, last_write, strava>>

\* lines 85-86: json.dump and close write the array from offset 0 of the
\* caller's own file object.  When another caller has written a longer text
\* since this caller's open, the tail of that text stays behind this
\* caller's text and the file is not valid JSON; an array of more records is
\* the longer text.
DumpAndClose ==
  \E c \in Callers :
    LET t == tasks[c]
        file_path == task_file(t)
        mine == task_dump(t)
        overwritten == files[file_path]
    IN /\ t.pc = "dump"
       /\ files' = [files EXCEPT ![file_path] =
                      IF overwritten.kind = "json" /\ Len(overwritten.data) > Len(mine)
                      THEN Corrupt
                      ELSE JsonArray(mine)]
       /\ last_write' = [last_write EXCEPT ![file_path] = [by |-> c, data |-> mine]]
       /\ tasks' = [tasks EXCEPT ![c] =
                      IF t.i < Len(t.keys)
                      THEN [t EXCEPT !.pc = "read", !.i = t.i + 1, !.existing = <<>>]
                      ELSE [t EXCEPT !.pc = "done"]]
       /\ UNCHANGED <<ret, before, strava>>

NextSaves == CallSave \/ ReadExisting \/ OpenForWrite \/ DumpAndClose

SpecSaves == InitSaves /\ [][NextSaves]_vars

\* every caller has called save and its call has returned
AllSavesReturned ==
  \A c \in Callers : tasks[c].pc = "done" /\ tasks[c].exc = "none"

----------------------------------------------------------------------------
(* save and delete step by step: interruption, write failure, overlap *)

\* the records of the stepwise calls: two of one pair with different keys
\* and one StravaActivity
StepPoints ==
  {Point(datetime(1), PairST, MetaId, "DataPoint"),
   Point(datetime(MaxTime), PairST, MetaId, "DataPoint"),
   Point(datetime(1), PairStrava, MetaId, "StravaActivity")}

StepBatches == {<<p>> : p \in StepPoints}

\* the directory when the calls begin: left by earlier saves
StepDirs ==
  {save(EmptyDir, <<Point(datetime(1), PairST, MetaId, "DataPoint")>>).files,
   save(EmptyDir, <<Point(datetime(1), PairST, MetaId, "DataPoint"),
                    Point(datetime(1), PairStrava, MetaId, "StravaActivity")>>).files}

\* the filters of the stepwise deletes: one pair without dates (the
\* whole-file path), one source, one start date
StepFilters ==
  {[NoFilter EXCEPT !.source = PairST[1], !.data_type = PairST[2]],
   [NoFilter EXCEPT !.source = PairStrava[1]],
   [NoFilter EXCEPT !.start_date = datetime(MaxTime)]}

\* a process that has not called the store yet
NotCalledOp ==
  [op |-> "none", pc |-> "start", f |-> NoFilter, data_points |-> <<>>,
   keys |-> <<>>, i |-> 0, existing |-> <<>>, count |-> 0, exc |-> "none",
   failed |-> FALSE]

InitSteps ==
  /\ files \in StepDirs
  /\ before = files
  /\ ret = Idle
  /\ tasks = [c \in Callers |-> NotCalledOp]
  /\ last_write = [n \in FileNames |-> NoWrite]
  /\ strava = NoSource

\* line 150: the filters for which delete removes the file
whole_file(f) ==
  /\ f.source # None /\ f.data_type # None
  /\ f.start_date = None /\ f.end_date = None

\* lines 38-44: a process calls save(data_points) and groups the points
CallSaveStep ==
  \E c \in Callers : \E data_points \in StepBatches :
    /\ tasks[c].pc = "start"
    /\ tasks' = [tasks EXCEPT ![c] =
                   [NotCalledOp EXCEPT !.op = "save", !.pc = "read",
                                       !.data_points = data_points,
                                       !.keys = group_keys(data_points, 1, <<>>),
                                       !.i = 1]]
    /\ before' = files
    /\ UNCHANGED <<files, ret, last_write, strava>>

\* line 136: a process calls delete(source, data_type, start_date, end_date)
CallDelete ==
  \E c \in Callers : \E f \in StepFilters :
    /\ tasks[c].pc = "start"
    /\ tasks' = [tasks EXCEPT ![c] =
                   [NotCalledOp EXCEPT !.op = "delete", !.pc = "load_matching",
                                       !.f = f]]
    /\ before' = files
    /\ UNCHANGED <<files, ret, last_write, strava>>

\* lines 144-150: the matching records are loaded; none ends the call with 0
LoadMatching ==
  \E c \in Callers : \E order \in GlobOrders(files) :
    LET t == tasks[c]
        data_points == load(files, t.f, order)
    IN /\ t.pc = "load_matching"
       /\ tasks' = [tasks EXCEPT ![c] =
                      IF data_points.exc # "none"
                      THEN [t EXCEPT !.pc = "done", !.exc = data_points.exc]
                      ELSE IF data_points.value = <<>>
                      THEN [t EXCEPT !.pc = "done"]
                      ELSE IF whole_file(t.f)
                      THEN [t EXCEPT !.pc = "unlink_file",
                                     !.data_points = data_points.value]
                      ELSE [t EXCEPT !.pc = "load_all"]]
       /\ UNCHANGED <<files, ret, before, last_write, strava>>

\* lines 151-154: the file of the pair is removed if it is still there
UnlinkFile ==
  \E c \in Callers :
    LET t == tasks[c]
        file_path == get_file_path(t.f.source, t.f.data_type)
    IN /\ t.pc = "unlink_file"
       /\ files' = IF exists(files, file_path)
                   THEN [files EXCEPT ![file_path] = Missing]
                   ELSE files
       /\ tasks' = [tasks EXCEPT ![c] =
                      [t EXCEPT !.pc = "done",
                                !.count = IF exists(files, file_path)
                                          THEN Len(t.data_points) ELSE 0]]
       /\ UNCHANGED <<ret, before, last_write, strava>>

\* lines 157-176: everything is loaded and split into the records to delete
\* and the records to keep
LoadAll ==
  \E c \in Callers : \E order \in GlobOrders(files) :
    LET t == tasks[c]
        all_data == load(files, NoFilter, order)
    IN /\ t.pc = "load_all"
       /\ tasks' = [tasks EXCEPT ![c] =
                      IF all_data.exc # "none"
                      THEN [t EXCEPT !.pc = "done", !.exc = all_data.exc]
                      ELSE [t EXCEPT
                              !.pc = "unlink_all",
                              !.data_points =
                                 SelectSeq(all_data.value, LAMBDA p : ~should_delete(p, t.f)),
                              !.count =
                                 Len(SelectSeq(all_data.value, LAMBDA p : should_delete(p, t.f)))]]
       /\ UNCHANGED <<files, ret, before, last_write, strava>>

\* lines 179-183: every *.json file is removed; with records to keep, save
\* is called with them, otherwise the count is returned
UnlinkAll ==
  \E c \in Callers :
    LET t == tasks[c]
    IN /\ t.pc = "unlink_all"
       /\ files' = unlink_all(files)
       /\ tasks' = [tasks EXCEPT ![c] =
                      IF t.data_points # <<>>
                      THEN [t EXCEPT !.pc = "read",
                                     !.keys = group_keys(t.data_points, 1, <<>>),
                                     !.i = 1]
                      ELSE [t EXCEPT !.pc = "done"]]
       /\ UNCHANGED <<ret, before, last_write, strava>>

\* the write error is caught and the call goes on to its normal return
swallow_oserror(t) == [t EXCEPT !.pc = "done"]

\* lines 84-86 have no except clause, nor has line 183: an OSError of open,
\* json.dump or close leaves save, and leaves delete when save was called
\* by delete
raise_oserror(t) == [t EXCEPT !.pc = "done", !.exc = "OSError"]

\* lines 84-86: writing the backing file fails (permissions at open, disk
\* full at json.dump or close); what open left of the file stays
WriteFails ==
  \E c \in Callers :
    LET t == tasks[c]
    IN /\ t.pc \in {"open", "dump"}
       /\ tasks' = [tasks EXCEPT ![c] = [raise_oserror(t) EXCEPT !.failed = TRUE]]
       /\ UNCHANGED <<files, ret, before, last_write, strava>>

\* the process is killed inside the call: nothing more of the call runs
Interrupt ==
  \E c \in Callers :
    /\ tasks[c].pc \notin {"start", "done", "killed"}
    /\ tasks' = [tasks EXCEPT ![c] = [@ EXCEPT !.pc = "killed"]]
    /\ UNCHANGED <<files, ret, before, last_write, strava>>

NextSteps ==
  \/ CallSaveStep \/ CallDelete \/ LoadMatching \/ UnlinkFile \/ LoadAll
  \/ UnlinkAll \/ ReadExisting \/ OpenForWrite \/ DumpAndClose \/ WriteFails
  \/ Interrupt

SpecSteps == InitSteps /\ [][NextSteps]_vars

----------------------------------------------------------------------------
(* The Strava source and POST /data/strava/fetch as a state machine *)

InitStrava ==
  /\ files = EmptyDir
  /\ before = files
  /\ ret = Idle
  /\ tasks = [c \in Callers |-> NotCalled]
  /\ last_write = [n \in FileNames |-> NoWrite]
  /\ strava \in {[self |-> StravaSource(config), run |-> AtRest] : config \in Configs}

\* await source.authenticate()
Authenticate ==
  /\ strava.run.pc = "idle"
  /\ \E status_code \in Statuses : \E refresh_status \in {200, 400} :
       LET r == authenticate(strava.self, status_code, refresh_status)
       IN strava' = [self |-> r.self,
                     run |-> [AtRest EXCEPT
                                !.op = "authenticate", !.result = r.result,
                                !.was_authenticated = strava.self._authenticated]]
  /\ UNCHANGED <<files, ret, before, tasks, last_write>>

\* await source._refresh_access_token()
RefreshAccessToken ==
  /\ strava.run.pc = "idle"
  /\ \E status_code \in {200, 400} :
       LET r == refresh_access_token(strava.self, status_code)
       IN strava' = [self |-> r.self,
                     run |-> [AtRest EXCEPT
                                !.op = "_refresh_access_token", !.result = r.result,
                                !.was_authenticated = strava.self._authenticated]]
  /\ UNCHANGED <<files, ret, before, tasks, last_write>>

\* lines 76-82 of fetch_data: an unauthenticated source authenticates first;
\* then the loop starts at page 1
fetch_begin(self, by, status_code, refresh_status) ==
  LET r == IF ~self._authenticated
           THEN authenticate(self, status_code, refresh_status)
           ELSE [self |-> self, result |-> "True"]
      run == [AtRest EXCEPT !.op = "fetch_data", !.by = by,
                            !.was_authenticated = self._authenticated]
  IN [self |-> r.self,
      run |-> IF r.result = "ValueError" THEN [run EXCEPT !.result = "ValueError"]
              ELSE IF r.result = "False" THEN [run EXCEPT !.result = "RuntimeError"]
              ELSE [run EXCEPT !.pc = "loop", !.page = 1]]

\* await source.fetch_data()
FetchData ==
  /\ strava.run.pc = "idle"
  /\ \E status_code \in Statuses : \E refresh_status \in {200, 400} :
       strava' = fetch_begin(strava.self, "caller", status_code, refresh_status)
  /\ UNCHANGED <<files, ret, before, tasks, last_write>>

\* lines 87-123: one request of the loop.  The loop is left on a status
\* other than 200, on an empty page and on a page shorter than per_page.
RequestPage ==
  /\ strava.run.pc = "loop"
  /\ \E status_code \in {200, 500} : \E n \in PageLengths(strava.run.page, strava.run.by) :
       LET run == strava.run
           asked == [run EXCEPT !.requests = Append(@, run.page),
                                !.statuses = Append(@, status_code)]
           got == [asked EXCEPT !.received = Append(@, n)]
           page == page_activities(run.page, n)
           added == [got EXCEPT
                       !.activities = @ \o [k \in 1..n |-> convert_to_activity(page[k])]]
           left == IF run.by = "caller" THEN "idle" ELSE "save"
       IN strava' =
            [strava EXCEPT !.run =
               IF status_code # 200
               THEN [asked EXCEPT !.pc = left, !.result = "returned"]
               ELSE IF n = 0
               THEN [got EXCEPT !.pc = left, !.result = "returned"]
               ELSE IF n < per_page
               THEN [added EXCEPT !.pc = left, !.result = "returned"]
               ELSE [added EXCEPT !.page = @ + 1]]
  /\ UNCHANGED <<files, ret, before, tasks, last_write>>

\* lines 197-198: except Exception turns what was raised inside the try
\* block into HTTPException(status_code=500, detail=str(e))
except_exception(run, text) ==
  [run EXCEPT !.pc = "idle", !.status_code = 500, !.detail = text]

\* lines 166-186 of fetch_strava_data: a source is built from the request
\* and authenticated; HTTPException(401) is raised inside the try block
\* when authenticate returns False; otherwise fetch_data is called
FetchStravaData ==
  /\ strava.run.pc = "idle"
  /\ \E request \in Configs : \E status_code \in Statuses :
     \E refresh_status \in {200, 400} :
       LET a == authenticate(StravaSource(request), status_code, refresh_status)
           run == [AtRest EXCEPT !.op = "fetch_strava_data", !.auth = a.result]
           f == fetch_begin(a.self, "endpoint", status_code, refresh_status)
       IN strava' =
            IF a.result = "ValueError"
            THEN [self |-> a.self,
                  run |-> except_exception(run,
                            <<"Access token is required for Strava authentication">>)]
            ELSE IF a.result = "False"
            THEN [self |-> a.self,
                  run |-> except_exception(run,
                            str_http_exception(401, <<"Failed to authenticate with Strava">>))]
            ELSE [self |-> f.self,
                  run |-> IF f.run.pc = "loop"
                          THEN [f.run EXCEPT !.op = "fetch_strava_data", !.auth = a.result]
                          ELSE except_exception(run, <<"Failed to authenticate with Strava">>)]
  /\ UNCHANGED <<files, ret, before, tasks, last_write>>

\* lines 189-198: the activities are saved and the count is answered; an
\* exception of save is answered with 500
SaveActivities ==
  /\ strava.run.pc = "save"
  /\ LET r == save(files, strava.run.activities)
     IN /\ files' = r.files
        /\ before' = r.files
        /\ strava' =
             [strava EXCEPT !.run =
                IF r.exc # "none"
                THEN [except_exception(@, <<r.exc>>) EXCEPT !.save_called = TRUE]
                ELSE [@ EXCEPT !.pc = "idle", !.status_code = 200,
                               !.save_called = TRUE]]
  /\ UNCHANGED <<ret, tasks, last_write>>

NextStrava ==
  \/ Authenticate \/ RefreshAccessToken \/ FetchData \/ RequestPage
  \/ FetchStravaData \/ SaveActivities

SpecStrava == InitStrava /\ [][NextStrava]_vars

----------------------------------------------------------------------------
(* Properties of the store *)

\* C1: idempotence of save: whenever save(R) returns, a second save(R) leaves
\* every backing file as the first save(R) left it; no file grows.
C1_SaveTwiceSameFiles ==
  \A R \in Batches :
    LET first == save(files, R)
    IN first.exc = "none" => save(first.files, R).files = first.files

\* C2: uniqueness: no backing file holds two records with the same identity
\* key (timestamp, id; the hash of the attribute mapping when id is absent).
C2_UniqueKeysInFile ==
  \A name \in FileNames :
    \A i, j \in 1..Len(files[name].data) :
      i # j => point_id(deserialize_point(files[name].data[i]))
               # point_id(deserialize_point(files[name].data[j]))

\* C3: partition correctness of delete: for every filter, delete returns the
\* number of stored records that match every given filter on their own
\* source, data_type and timestamp, and load() afterwards returns the stored
\* records without the matching ones.
C3_DeletePartition ==
  \A f \in Filters : \A order \in GlobOrders(files) :
    LET S == load(files, NoFilter, order)
        Matches(p) ==
          /\ f.source = None \/ p.source = f.source
          /\ f.data_type = None \/ p.data_type = f.data_type
          /\ f.start_date = None \/ f.start_date[2] <= p.timestamp[2]
          /\ f.end_date = None \/ p.timestamp[2] <= f.end_date[2]
        r == delete(files, f, order)
    IN S.exc = "none" =>
         /\ r.exc = "none"
         /\ r.count = Len(SelectSeq(S.value, Matches))
         /\ \A after \in GlobOrders(r.files) :
              LET L == load(r.files, NoFilter, after)
              IN /\ L.exc = "none"
                 /\ Range(L.value) = {p \in Range(S.value) : ~Matches(p)}
                 /\ Len(L.value) = Len(S.value) - Len(SelectSeq(S.value, Matches))

\* C4: filtered load: load(source=s) returns exactly the stored records whose
\* source is s, and load(data_type=c) exactly those whose data_type is c.
C4_LoadBySourceOrType ==
  \A order \in GlobOrders(files) :
    LET S == load(files, NoFilter, order)
    IN S.exc = "none" =>
         /\ \A s \in Sources :
              load(files, [NoFilter EXCEPT !.source = s], order)
                = [exc |-> "none",
                   value |-> SelectSeq(S.value, LAMBDA p : p.source = s)]
         /\ \A c \in DataTypes :
              load(files, [NoFilter EXCEPT !.data_type = c], order)
                = [exc |-> "none",
                   value |-> SelectSeq(S.value, LAMBDA p : p.data_type = c)]

\* C5: the file name is an injective, reversible image of (source,
\* data_type): the records of one backing file all have the same pair, and
\* that pair is the one split("_", 1) derives from the file's name.
C5_FileNameReversible ==
  \A name \in FileNames :
    \A i, j \in 1..Len(files[name].data) :
      LET x == files[name].data[i]
          y == files[name].data[j]
      IN /\ <<x.source, x.data_type>> = <<y.source, y.data_type>>
         /\ split(name) = <<x.source, x.data_type>>

\* C6: whole-category delete: when the backing file of (s, c) exists,
\* delete(source=s, data_type=c) returns the number of records the file held,
\* the file is gone afterwards, and load() still returns the records of
\* every other pair.
C6_DeleteWholeCategory ==
  \A pair \in Pairs : \A order \in GlobOrders(files) :
    LET name == get_file_path(pair[1], pair[2])
        f == [NoFilter EXCEPT !.source = pair[1], !.data_type = pair[2]]
        S == load(files, NoFilter, order)
        Others == SelectSeq(S.value, LAMBDA p : <<p.source, p.data_type>> # pair)
        r == delete(files, f, order)
    IN (exists(files, name) /\ S.exc = "none") =>
         /\ r.exc = "none"
         /\ r.count = Len(files[name].data)
         /\ ~exists(r.files, name)
         /\ \A after \in GlobOrders(r.files) :
              load(r.files, NoFilter, after) = [exc |-> "none", value |-> Others]

\* C7: round trip: save([R]) on the empty store followed by
\* load(source=R.source, data_type=R.data_type) returns the one record R,
\* equal in timestamp, source, data_type and every attribute.
C7_RoundTrip ==
  \A R \in Points :
    (\A name \in FileNames : ~exists(files, name)) =>
      LET saved == save(files, <<R>>)
          f == [NoFilter EXCEPT !.source = R.source, !.data_type = R.data_type]
      IN /\ saved.exc = "none"
         /\ \A order \in GlobOrders(saved.files) :
              load(saved.files, f, order) = [exc |-> "none", value |-> <<R>>]

\* a backing file that is a JSON array whose entries all deserialize
ValidFile(name) ==
  /\ files[name].kind = "json"
  /\ \A i \in 1..Len(files[name].data) : Validates(files[name].data[i])

\* C8: corrupt-file resilience: with one backing file that is not valid JSON
\* and one valid backing file in the directory, load() does not raise and
\* returns exactly the records of the valid file.
C8_CorruptFileSkipped ==
  \A c, v \in FileNames :
    (/\ c # v
     /\ files[c].kind = "corrupt"
     /\ find_underscore(c, 1) # 0
     /\ ValidFile(v)
     /\ glob(files) = {c, v}) =>
      \A order \in GlobOrders(files) :
        load(files, NoFilter, order)
          = [exc |-> "none", value |-> deserialize_all(files[v].data)]

\* a load() has returned the records of the valid file next to a corrupt one
C8_Witness ==
  \E c, v \in FileNames :
    /\ c # v
    /\ files[c].kind = "corrupt"
    /\ find_underscore(c, 1) # 0
    /\ ValidFile(v)
    /\ glob(files) = {c, v}
    /\ ret.op = "load"
    /\ ret.exc = "none"
    /\ ret.value = deserialize_all(files[v].data)
    /\ ret.value # <<>>

\* C9: entry-level failure: a backing file with an entry that does not
\* deserialize counts as empty; load() does not raise and returns the
\* records of the other files, none of the failing file.
C9_BadEntryFileCountsEmpty ==
  \A bad \in FileNames :
    file_raises(files, bad) =>
      \A order \in GlobOrders(files) :
        LET L == load(files, NoFilter, order)
            rest == [files EXCEPT ![bad] = Missing]
        IN /\ L.exc = "none"
           /\ L.value = load(rest, NoFilter, order).value

\* C10: file order: the records of every backing file are in non-decreasing
\* timestamp order.
C10_FilesSortedByTimestamp ==
  \A name \in FileNames :
    \A i, j \in 1..Len(files[name].data) :
      i < j => files[name].data[i].timestamp[2] <= files[name].data[j].timestamp[2]

\* a save has left a file with records of two different timestamps
C10_Witness ==
  /\ ret.op = "save"
  /\ \E name \in FileNames :
       /\ Len(files[name].data) >= 2
       /\ files[name].data[1].timestamp[2] < files[name].data[Len(files[name].data)].timestamp[2]

\* the record meets every given filter on its own source, data_type and
\* timestamp, the date bounds being inclusive
RecordMatches(p, f) ==
  /\ f.source = None \/ p.source = f.source
  /\ f.data_type = None \/ p.data_type = f.data_type
  /\ f.start_date = None \/ f.start_date[2] <= p.timestamp[2]
  /\ f.end_date = None \/ p.timestamp[2] <= f.end_date[2]

\* C11: sort invariant of load: the list a load returns, for any filters and
\* also when its records come from several files, is non-decreasing by
\* timestamp.
C11_LoadSorted ==
  (ret.op = "load" /\ ret.exc = "none") =>
    \A i, j \in 1..Len(ret.value) :
      i < j => ret.value[i].timestamp[2] <= ret.value[j].timestamp[2]

\* a load has returned records of two files that it read in descending
\* timestamp order
C11_Witness ==
  /\ ret.op = "load"
  /\ ret.exc = "none"
  /\ Len(ret.value) >= 2
  /\ \E order \in GlobOrders(files) :
       LET names == files_to_load(files, NoFilter, order)
           read == concat_files(files, names, NoFilter, 1)
       IN /\ Len(names) >= 2
          /\ Len(read) >= 2
          /\ read[1].timestamp[2] > read[Len(read)].timestamp[2]
          /\ read[1].source # read[Len(read)].source
          /\ ret.value = load(files, NoFilter, order).value

\* C12: inclusive date range: load with start_date and/or end_date returns
\* exactly the records of the same load without dates whose timestamp t has
\* start_date <= t <= end_date; an absent bound does not restrict.
C12_InclusiveDateRange ==
  ret = Idle =>
    \A f \in Filters : \A order \in GlobOrders(files) :
      LET candidates ==
            load(files, [f EXCEPT !.start_date = None, !.end_date = None], order)
          InRange(p) ==
            /\ f.start_date = None \/ f.start_date[2] <= p.timestamp[2]
            /\ f.end_date = None \/ p.timestamp[2] <= f.end_date[2]
      IN candidates.exc = "none" =>
           load(files, f, order)
             = [exc |-> "none", value |-> SelectSeq(candidates.value, InRange)]

\* a load with start_date = end_date has returned the record of exactly that
\* timestamp and left out a stored record of another timestamp
C12_Witness ==
  /\ ret.op = "load"
  /\ ret.exc = "none"
  /\ ret.value # <<>>
  /\ \E f \in Filters : \E order \in GlobOrders(files) :
       /\ f.start_date # None
       /\ f.end_date = f.start_date
       /\ ret.value = load(files, f, order).value
       /\ \A i \in 1..Len(ret.value) : ret.value[i].timestamp = f.start_date
       /\ Len(load(files, [f EXCEPT !.start_date = None, !.end_date = None],
                   order).value) > Len(ret.value)

\* C13: delete everything: when load() returns n records, delete() without
\* filters returns n and load() afterwards returns the empty list.
C13_DeleteEverything ==
  ret = Idle =>
    \A order \in GlobOrders(files) :
      LET S == load(files, NoFilter, order)
          r == delete(files, NoFilter, order)
      IN S.exc = "none" =>
           /\ r.exc = "none"
           /\ r.count = Len(S.value)
           /\ \A after \in GlobOrders(r.files) :
                load(r.files, NoFilter, after) = [exc |-> "none", value |-> <<>>]

\* a delete() without filters has returned the number of the records of two
\* files and has left no file
C13_Witness ==
  /\ ret.op = "delete"
  /\ ret.exc = "none"
  /\ ret.count >= 2
  /\ glob(files) = {}
  /\ Cardinality(glob(before)) >= 2
  /\ \E order \in GlobOrders(before) :
       /\ Len(load(before, NoFilter, order).value) = ret.count
       /\ delete(before, NoFilter, order)
            = [exc |-> "none", count |-> ret.count, files |-> files]

\* C14: no match is not an error: when no record load() returns meets the
\* filters, load with these filters returns the empty list, delete with them
\* returns 0, neither raises, and load() returns the same records after the
\* delete as before it.
C14_NoMatchNotAnError ==
  \A f \in Filters : \A order \in GlobOrders(files) :
    LET S == load(files, NoFilter, order)
        r == delete(files, f, order)
    IN (S.exc = "none" /\ \A p \in Range(S.value) : ~RecordMatches(p, f)) =>
         /\ load(files, f, order) = [exc |-> "none", value |-> <<>>]
         /\ r.exc = "none"
         /\ r.count = 0
         /\ \A after \in GlobOrders(r.files) :
              LET L == load(r.files, NoFilter, after)
              IN /\ L.exc = "none"
                 /\ Range(L.value) = Range(S.value)
                 /\ Len(L.value) = Len(S.value)

\* C15: malformed file on save: a save of a batch of one (source, data_type)
\* whose backing file is not valid JSON returns without raising and leaves in
\* the file exactly the records of the batch; and load and delete, for every
\* filter, return with the malformed file in the directory what they return
\* without it.
C15_MalformedFileTreatedAsEmpty ==
  ret = Idle =>
    \A c \in FileNames :
      files[c].kind = "corrupt" =>
        /\ \A R \in Batches :
             (/\ R # <<>>
              /\ \A i \in 1..Len(R) : get_file_path(R[i].source, R[i].data_type) = c
              /\ \A i \in 1..Len(R) : <<R[i].source, R[i].data_type>>
                                        = <<R[1].source, R[1].data_type>>) =>
               save(files, R)
                 = [exc |-> "none",
                    files |-> [files EXCEPT
                                 ![c] = JsonArray(dump_all(sort_by_timestamp(R)))]]
        /\ \A f \in Filters : \A order \in GlobOrders(files) :
             LET rest == [files EXCEPT ![c] = Missing]
                 without == SelectSeq(order, LAMBDA n : n # c)
                 r == delete(files, f, order)
                 q == delete(rest, f, without)
             IN /\ load(files, f, order) = load(rest, f, without)
                /\ r.exc = q.exc
                /\ r.count = q.count
                /\ \A after \in GlobOrders(r.files) :
                     load(r.files, NoFilter, after)
                       = load(q.files, NoFilter,
                              SelectSeq(after, LAMBDA n : exists(q.files, n)))

\* a save has returned after writing its batch over a backing file that was
\* not valid JSON
C15_Witness ==
  /\ ret.op = "save"
  /\ ret.exc = "none"
  /\ \E c \in FileNames :
       /\ before[c].kind = "corrupt"
       /\ files[c].kind = "json"
       /\ Len(files[c].data) >= 2
       /\ \E R \in Batches :
            save(before, R) = [exc |-> "none", files |-> files]

\* C18: dedupe is scoped to one file: when a stored record of another
\* (source, data_type) has the (timestamp, id) key of R and no stored record
\* of R's own pair has it, save([R]) stores R, and load() afterwards returns
\* R next to every record it returned before.
C18_DedupeScopedToFile ==
  \A R \in Points : \A order \in GlobOrders(files) :
    LET S == load(files, NoFilter, order)
        SamePair(q) == <<q.source, q.data_type>> = <<R.source, R.data_type>>
        r == save(files, <<R>>)
    IN (/\ S.exc = "none"
        /\ \E q \in Range(S.value) : point_id(q) = point_id(R) /\ ~SamePair(q)
        /\ ~\E q \in Range(S.value) : point_id(q) = point_id(R) /\ SamePair(q)) =>
         /\ r.exc = "none"
         /\ \A after \in GlobOrders(r.files) :
              LET L == load(r.files, NoFilter, after)
              IN /\ L.exc = "none"
                 /\ Len(L.value) = Len(S.value) + 1
                 /\ Range(L.value)
                      = Range(S.value) \cup {deserialize_point(model_dump(R))}

\* C19: a matching key is a no-op: when the identity key of R is among the
\* keys of the records of R's backing file, save([R]) returns and leaves
\* every file, the stored record included, as it was.
C19_MatchingKeyNoOp ==
  \A R \in Points :
    LET existing == existing_data(files, get_file_path(R.source, R.data_type))
    IN (/\ \A i \in 1..Len(existing) : Validates(existing[i])
        /\ \E i \in 1..Len(existing) :
             point_id(deserialize_point(existing[i])) = point_id(R)) =>
         save(files, <<R>>) = [exc |-> "none", files |-> files]

C16_ConcurrentSavesDifferentPairs ==
  (/\ AllSavesReturned
   /\ \A c, d \in Callers :
        c # d => Range(tasks[c].keys) \cap Range(tasks[d].keys) = {}) =>
    \A order \in GlobOrders(files) :
      LET L == load(files, NoFilter, order)
      IN /\ L.exc = "none"
         /\ \A c \in Callers : \A p \in Range(tasks[c].data_points) :
              deserialize_point(model_dump(p)) \in Range(L.value)

\* C17: the last writer wins: when overlapping save calls have all returned,
\* every file a call wrote holds the array of the call that wrote it last
\* (which may lack the new records of the other call).
C17_LastWriterWins ==
  AllSavesReturned =>
    \A name \in FileNames :
      last_write[name].by # 0 => files[name] = JsonArray(last_write[name].data)

\* C24: the whole-file path of delete is equivalent to the record-by-record
\* path: for every pair (s, c) with matching records, delete(source=s,
\* data_type=c) returns the count and leaves the directory that lines
\* 156-183 would return and leave for the same filters.
C24_DeletePathsEquivalent ==
  \A pair \in Pairs : \A order \in GlobOrders(files) :
    LET f == [NoFilter EXCEPT !.source = pair[1], !.data_type = pair[2]]
        matching == load(files, f, order)
        whole == delete(files, f, order)
        general == delete_general(files, f, order)
    IN (/\ matching.exc = "none"
        /\ matching.value # <<>>
        /\ load(files, NoFilter, order).exc = "none") =>
         /\ whole.exc = general.exc
         /\ whole.count = general.count
         /\ whole.files = general.files

\* C28: frame of delete: a *.json file of the directory that is not valid
\* JSON, or whose name lacks the source_datatype pattern, exists with the
\* same content after any delete that returns.
C28_DeleteLeavesForeignFiles ==
  (ret.op = "delete" /\ ret.exc = "none") =>
    \A name \in FileNames :
      (\/ before[name].kind = "corrupt"
       \/ exists(before, name) /\ find_underscore(name, 1) = 0) =>
        files[name] = before[name]

\* C29: every record save accepts stays loadable: after save([R]) returns,
\* every load, for any filters, and every save to R's pair returns without
\* raising, and load() returns a record of R's pair with R's identity key.
C29_AcceptedRecordsStayLoadable ==
  \A R \in Points :
    LET r == save(files, <<R>>)
    IN r.exc = "none" =>
         /\ \A f \in Filters : \A order \in GlobOrders(r.files) :
              load(r.files, f, order).exc = "none"
         /\ \A Q \in Points :
              <<Q.source, Q.data_type>> = <<R.source, R.data_type>> =>
                save(r.files, <<Q>>).exc = "none"
         /\ \A order \in GlobOrders(r.files) :
              \E q \in Range(load(r.files, NoFilter, order).value) :
                /\ point_id(q) = point_id(deserialize_point(model_dump(R)))
                /\ <<q.source, q.data_type>> = <<R.source, R.data_type>>

\* C30: frame of save: save(batch) leaves the backing file of every
\* (source, data_type) that is not the pair of a record of the batch as it
\* was, and save([]) changes no file.
C30_SaveLeavesOtherPairs ==
  \A R \in Batches :
    LET r == save(files, R)
    IN /\ \A pair \in Pairs :
            (\A i \in 1..Len(R) : <<R[i].source, R[i].data_type>> # pair) =>
              r.files[get_file_path(pair[1], pair[2])]
                = files[get_file_path(pair[1], pair[2])]
       /\ R = <<>> => r.files = files

\* C25: committed records are not lost by an interrupted operation: while one
\* save or delete runs alone, was interrupted or has failed, every record
\* that was on disk when it was called and that it was not asked to remove
\* is on disk.
C25_CommittedRecordsSurvive ==
  \A c \in Callers :
    (tasks[c].op # "none" /\ \A o \in Callers \ {c} : tasks[o].op = "none") =>
      \A name \in FileNames : \A i \in 1..Len(before[name].data) :
        (\/ tasks[c].op = "save"
         \/ ~should_delete(deserialize_point(before[name].data[i]), tasks[c].f)) =>
           /\ files[name].kind = "json"
           /\ before[name].data[i] \in Range(files[name].data)

\* C26: a write failure is surfaced: a save or a delete in which writing a
\* backing file failed ends with the error and never returns normally.
C26_WriteFailureSurfaced ==
  \A c \in Callers :
    tasks[c].failed => tasks[c].pc = "done" /\ tasks[c].exc = "OSError"

\* a save whose write failed and a delete whose re-save failed have ended
C26_Witness ==
  /\ \E c \in Callers :
       tasks[c].op = "save" /\ tasks[c].failed /\ tasks[c].exc = "OSError"
  /\ \E c \in Callers :
       /\ tasks[c].op = "delete" /\ tasks[c].failed /\ tasks[c].exc = "OSError"
       /\ ~whole_file(tasks[c].f) /\ tasks[c].count > 0

\* C27: a delete on the general path overlapping a save of records that do
\* not match its filters: after both have returned, load() returns the saved
\* records.
C27_InterleavedSaveSurvivesDelete ==
  \A d \in Callers : \A s \in Callers :
    (/\ tasks[d].op = "delete" /\ tasks[d].pc = "done" /\ tasks[d].exc = "none"
     /\ ~whole_file(tasks[d].f) /\ tasks[d].count > 0
     /\ tasks[s].op = "save" /\ tasks[s].pc = "done" /\ tasks[s].exc = "none"
     /\ \A o \in Callers \ {d, s} : tasks[o].op = "none") =>
      \A R \in Range(tasks[s].data_points) :
        ~should_delete(R, tasks[d].f) =>
          \A order \in GlobOrders(files) :
            LET r == load(files, NoFilter, order)
            IN /\ r.exc = "none"
               /\ \E q \in Range(r.value) :
                    /\ point_id(q) = point_id(R)
                    /\ <<q.source, q.data_type>> = <<R.source, R.data_type>>

\* C21: the outcome of authentication matches the flag: after a call of
\* authenticate or _refresh_access_token that returned False the flag
\* _authenticated is False, after one that returned True it is True.
C21_AuthOutcomeMatchesFlag ==
  (/\ strava.run.op \in {"authenticate", "_refresh_access_token"}
   /\ strava.run.result \in {"True", "False"}) =>
     (strava.self._authenticated <=> strava.run.result = "True")

\* the activities of the received pages, in order
RECURSIVE pages_in_order(_, _)
pages_in_order(received, i) ==
  IF i > Len(received) THEN <<>>
  ELSE [k \in 1..received[i] |-> convert_to_activity(activity_data(i, k))]
       \o pages_in_order(received, i + 1)

\* C22: pagination of fetch_data: when every request was answered with 200,
\* the pages 1, 2, ... were requested, every page but the last was non-empty,
\* the last page was empty, and the activities of all pages are returned in
\* order.
C22_FetchDataPagination ==
  LET run == strava.run
      n == Len(run.requests)
  IN (/\ run.op = "fetch_data" /\ run.pc = "idle" /\ run.result = "returned"
      /\ \A i \in 1..Len(run.statuses) : run.statuses[i] = 200) =>
        /\ n >= 1
        /\ run.requests = [i \in 1..n |-> i]
        /\ Len(run.received) = n
        /\ \A i \in 1..(n - 1) : run.received[i] > 0
        /\ run.received[n] = 0
        /\ run.activities = pages_in_order(run.received, 1)

\* C23: POST /data/strava/fetch answers 401 with a detail containing
\* "Failed to authenticate" when authentication returned False, and save was
\* not called.
C23_FetchAnswers401 ==
  LET run == strava.run
  IN (run.op = "fetch_strava_data" /\ run.pc = "idle" /\ run.auth = "False") =>
       /\ run.status_code = 401
       /\ \E i \in 1..Len(run.detail) : run.detail[i] = "Failed to authenticate with Strava"
       /\ ~run.save_called

====
